---- MODULE Spec2Model ----
(***************************************************************************)
(* Model of the weather endpoint of src/app/api/weather/route.ts: the POST *)
(* handler, getOpenAIClient and fetchWeatherData, for one request from its *)
(* arrival to its response.  The language service and the weather provider *)
(* are the environment: each pending outbound call is answered by one of    *)
(* the replies the service can give (a value or a thrown error).           *)
(*                                                                         *)
(* JavaScript values are tagged records: [t |-> "undefined"], [t |-> "null"],*)
(* [t |-> "string", s |-> <<tokens>>], [t |-> "number", n |-> Int],        *)
(* [t |-> "object", f |-> [field |-> value]].  A string is the sequence of *)
(* its pieces, so concatenation is \o and "contains" is membership.        *)
(***************************************************************************)
EXTENDS Integers, Sequences, FiniteSets, TLC

\* ------------------------------------------------------------------ bounds
MaxQueryLen == 2
MaxOutputItems == 2

\* ------------------------------------------------------------- JS values
Undefined == [t |-> "undefined"]
Null == [t |-> "null"]
Str(s) == [t |-> "string", s |-> s]
\* A number is n * 10^e, so that the decimal factors of the unit conversions
\* are exact.
Num(n) == [t |-> "number", n |-> n, e |-> 0]
Bool(b) == [t |-> "boolean", b |-> b]
Obj(f) == [t |-> "object", f |-> f]
Arr(a) == [t |-> "array", a |-> a]
NaN == [t |-> "nan"]

NoFields == [x \in {} |-> Undefined]

\* obj.name for an object value; a missing property reads as undefined.
Get(obj, name) ==
    IF obj.t = "object" /\ name \in DOMAIN obj.f THEN obj.f[name] ELSE Undefined

\* `${v}` : the text a template literal gives for a value.
ToText(v) ==
    CASE v.t = "string" -> v.s
      [] v.t = "number" -> IF v.e = 0 THEN <<ToString(v.n)>>
                           ELSE <<ToString(v.n), "e", ToString(v.e)>>
      [] v.t = "boolean" -> IF v.b THEN <<"true">> ELSE <<"false">>
      [] v.t = "nan" -> <<"NaN">>
      [] v.t = "undefined" -> <<"undefined">>
      [] v.t = "null" -> <<"null">>
      [] OTHER -> <<"[object Object]">>

\* A thrown value: an Error with a message, or some other thrown value.
Err(msg) == [isError |-> TRUE, message |-> msg]
NonError == [isError |-> FALSE, message |-> <<>>]

\* The characters a query is made of: three kinds of whitespace and a letter.
Whitespace == {" ", "\t", "\n"}
QueryChars == Whitespace \cup {"a"}

RECURSIVE SeqsUpTo(_, _)
SeqsUpTo(S, n) ==
    IF n = 0 THEN {<<>>}
    ELSE LET shorter == SeqsUpTo(S, n - 1)
         IN  shorter \cup {Append(q, c) : q \in {x \in shorter : Len(x) = n - 1}, c \in S}

\* ------------------------------------------------------- the JS ! operator
\* Faulty variant: the empty string is not treated as falsy.
TruthyEmptyString(v) ==
    CASE v.t = "undefined" -> FALSE
      [] v.t = "null" -> FALSE
      [] v.t = "string" -> TRUE
      [] v.t = "number" -> v.n # 0
      [] v.t = "boolean" -> v.b
      [] v.t = "nan" -> FALSE
      [] OTHER -> TRUE

\* JavaScript truthiness, as used by `!query`, `!process.env.OPENAI_API_KEY`,
\* `data.reason || ...` and `response.output_text || ...`.
Truthy(v) ==
    CASE v.t = "undefined" -> FALSE
      [] v.t = "null" -> FALSE
      [] v.t = "string" -> v.s # <<>>
      [] v.t = "number" -> v.n # 0
      [] v.t = "boolean" -> v.b
      [] v.t = "nan" -> FALSE
      [] OTHER -> TRUE

\* a || b
OrElse(a, b) == IF Truthy(a) THEN a ELSE b

\* Faulty variant: the factor loses its decimal places (0.01 becomes 1).
TimesWholeFactor(v, mant, exp) ==
    IF v.t = "number" THEN [t |-> "number", n |-> v.n * mant, e |-> v.e]
    ELSE NaN

\* Faulty variant: the factor is rounded to a power of ten (0.621371 becomes
\* 0.000001).
TimesPowerOfTen(v, mant, exp) ==
    IF v.t = "number" THEN [t |-> "number", n |-> v.n, e |-> v.e + exp]
    ELSE NaN

\* v * (mant * 10^exp) for a decimal literal; NaN when v is not a number.
Times(v, mant, exp) ==
    IF v.t = "number" THEN [t |-> "number", n |-> v.n * mant, e |-> v.e + exp]
    ELSE NaN

\* Destructuring `const { ... } = v` throws a TypeError on undefined and null.
CanDestructure(v) == v.t \notin {"undefined", "null"}

\* A JSON text is known by what JSON.parse makes of it: a SyntaxError or a
\* value.
Malformed == [json |-> "malformed"]
Json(v) == [json |-> "ok", value |-> v]
JsonSyntaxError == Err(<<"Unexpected token in JSON">>)
TypeErrorOf(what) == Err(<<"Cannot read properties of ">> \o what)

\* ----------------------------------------------------------- getOpenAIClient
\* Faulty variant: the client is built without looking at the credential.
getOpenAIClientUnchecked(key) == [threw |-> FALSE]

getOpenAIClient(key) ==
    IF ~Truthy(key)
    THEN [threw |-> TRUE,
          error |-> Err(<<"OPENAI_API_KEY", " environment variable is required">>)]
    ELSE [threw |-> FALSE]

\* -------------------------------------------------------- Response.json(...)
\* JSON serialisation drops the properties whose value is undefined.
ResponseJson(fields, status) ==
    [status |-> status,
     body |-> [k \in {x \in DOMAIN fields : fields[x].t # "undefined"} |-> fields[k]]]

QueryRequired == ResponseJson([error |-> Str(<<"Query is required">>)], 400)

\* Faulty variant: the thrown value's message is passed on without the instanceof test.
ErrorDetailsUnguarded(e) == IF e.isError THEN Str(e.message) ELSE Undefined

\* error instanceof Error ? error.message : "Unknown error"
ErrorDetails(e) == IF e.isError THEN Str(e.message) ELSE Str(<<"Unknown error">>)

\* The catch around the weather fetch and the structuring call.
InnerCatch(e) ==
    ResponseJson([error |-> Str(<<"Failed to fetch weather data">>),
                  details |-> ErrorDetails(e)], 500)

\* The catch around the whole handler.
OuterCatch(e) ==
    ResponseJson([error |-> Str(<<"Internal server error">>),
                  details |-> ErrorDetails(e)], 500)

FallbackMessage ==
    Str(<<"I'd be happy to help with weather information. Please specify a location, for example: 'What's the weather in Paris?'">>)

\* Faulty variant: the text is returned as it is, without the fallback.
DirectAnswerNoFallback(r) ==
    ResponseJson([success |-> Bool(TRUE), message |-> r.output_text], 200)

\* The response when no tool call was made.
DirectAnswer(r) ==
    ResponseJson([success |-> Bool(TRUE),
                  message |-> OrElse(r.output_text, FallbackMessage)], 200)

\* The response of a full tool-call round trip.
ToolCallSuccess(structured, reading) ==
    ResponseJson([success |-> Bool(TRUE),
                  data |-> structured.output_parsed,
                  raw_weather |-> reading], 200)

\* Faulty variant: any function call in first place counts as the weather tool call.
IsToolCallAnyName(r) ==
    /\ r.output.t = "array"
    /\ Len(r.output.a) > 0
    /\ r.output.a[1].type = "function_call"

\* response.output && response.output.length > 0 && output[0] is a
\* function_call named get_weather_data
IsToolCall(r) ==
    /\ r.output.t = "array"
    /\ Len(r.output.a) > 0
    /\ r.output.a[1].type = "function_call"
    /\ r.output.a[1].name = "get_weather_data"

\* ---------------------------------------------------------- fetchWeatherData
\* Faulty variant: the default is taken whatever the invocation asks for.
DefaultAlways(v, d) == d

\* v = default in a destructuring pattern: the default replaces undefined only.
Default(v, d) == IF v.t = "undefined" THEN d ELSE v

\* The four unit preferences after destructuring with their defaults.
Units(params) ==
    [temperature_unit |-> Default(Get(params, "temperature_unit"), Str(<<"celsius">>)),
     wind_unit |-> Default(Get(params, "wind_unit"), Str(<<"kmh">>)),
     pressure_unit |-> Default(Get(params, "pressure_unit"), Str(<<"hPa">>)),
     visibility_unit |-> Default(Get(params, "visibility_unit"), Str(<<"km">>))]

\* The query parameters of the provider URL that depend on the invocation.
WeatherUrl(params) ==
    [latitude |-> ToText(Get(params, "latitude")),
     longitude |-> ToText(Get(params, "longitude")),
     temperature_unit |-> ToText(Units(params).temperature_unit),
     wind_speed_unit |-> ToText(Units(params).wind_unit),
     pressure_unit |-> ToText(Units(params).pressure_unit)]

\* Faulty variant: the table without its entry for code 77.
weatherConditionsWithout77 ==
    (0 :> "clear sky") @@ (1 :> "mainly clear") @@ (2 :> "partly cloudy") @@
    (3 :> "overcast") @@ (45 :> "fog") @@ (48 :> "depositing rime fog") @@
    (51 :> "light drizzle") @@ (53 :> "moderate drizzle") @@
    (55 :> "dense drizzle") @@ (56 :> "light freezing drizzle") @@
    (57 :> "dense freezing drizzle") @@ (61 :> "slight rain") @@
    (63 :> "moderate rain") @@ (65 :> "heavy rain") @@
    (66 :> "light freezing rain") @@ (67 :> "heavy freezing rain") @@
    (71 :> "slight snow fall") @@ (73 :> "moderate snow fall") @@
    (75 :> "heavy snow fall") @@
    (80 :> "slight rain showers") @@ (81 :> "moderate rain showers") @@
    (82 :> "violent rain showers") @@ (85 :> "slight snow showers") @@
    (86 :> "heavy snow showers") @@ (95 :> "thunderstorm") @@
    (96 :> "thunderstorm with slight hail") @@
    (99 :> "thunderstorm with heavy hail")

weatherConditions ==
    (0 :> "clear sky") @@ (1 :> "mainly clear") @@ (2 :> "partly cloudy") @@
    (3 :> "overcast") @@ (45 :> "fog") @@ (48 :> "depositing rime fog") @@
    (51 :> "light drizzle") @@ (53 :> "moderate drizzle") @@
    (55 :> "dense drizzle") @@ (56 :> "light freezing drizzle") @@
    (57 :> "dense freezing drizzle") @@ (61 :> "slight rain") @@
    (63 :> "moderate rain") @@ (65 :> "heavy rain") @@
    (66 :> "light freezing rain") @@ (67 :> "heavy freezing rain") @@
    (71 :> "slight snow fall") @@ (73 :> "moderate snow fall") @@
    (75 :> "heavy snow fall") @@ (77 :> "snow grains") @@
    (80 :> "slight rain showers") @@ (81 :> "moderate rain showers") @@
    (82 :> "violent rain showers") @@ (85 :> "slight snow showers") @@
    (86 :> "heavy snow showers") @@ (95 :> "thunderstorm") @@
    (96 :> "thunderstorm with slight hail") @@
    (99 :> "thunderstorm with heavy hail")

\* Faulty variant: the code is tested for truthiness before the lookup, so
\* code 0 is taken for a missing code.
ConditionZeroMissing(code) ==
    IF code.t = "number" /\ code.e = 0 /\ code.n # 0
       /\ code.n \in DOMAIN weatherConditions
    THEN Str(<<weatherConditions[code.n]>>)
    ELSE Str(<<"unknown">>)

\* weatherConditions[code] || "unknown"
Condition(code) ==
    IF code.t = "number" /\ code.e = 0 /\ code.n \in DOMAIN weatherConditions
    THEN Str(<<weatherConditions[code.n]>>)
    ELSE Str(<<"unknown">>)

\* Faulty variant: the letters are the wrong way round.
UnitLetterSwapped(unit) == IF unit = Str(<<"celsius">>) THEN <<"F">> ELSE <<"C">>

\* temperature_unit === 'celsius' ? 'C' : 'F'
UnitLetter(unit) == IF unit = Str(<<"celsius">>) THEN <<"C">> ELSE <<"F">>

\* Faulty variant: the wind speed is read in place of the wind direction.
WindDirectionFromSpeed(current) == Get(current, "wind_speed_10m")

\* wind_direction: current.wind_direction_10m
WindDirection(current) == Get(current, "wind_direction_10m")

\* The object fetchWeatherData returns, from its parameters and the
\* provider's `current` object.
Reading(params, current) ==
    LET u == Units(params)
        condition == Condition(Get(current, "weather_code"))
        pressure == IF u.pressure_unit = Str(<<"mb">>)
                    THEN Times(Get(current, "pressure_msl"), 1, -2)
                    ELSE Get(current, "pressure_msl")
        visibility == IF u.visibility_unit = Str(<<"miles">>)
                      THEN Times(Get(current, "visibility"), 621371, -6)
                      ELSE Get(current, "visibility")
    IN  Obj([location |-> Get(params, "location_name"),
             temperature |-> Get(current, "temperature_2m"),
             temperature_unit |-> u.temperature_unit,
             condition |-> condition,
             humidity |-> Get(current, "relative_humidity_2m"),
             wind_speed |-> Get(current, "wind_speed_10m"),
             wind_unit |-> u.wind_unit,
             wind_direction |-> WindDirection(current),
             pressure |-> pressure,
             pressure_unit |-> u.pressure_unit,
             visibility |-> visibility,
             visibility_unit |-> u.visibility_unit,
             uv_index |-> Num(0),
             feels_like |-> Get(current, "apparent_temperature"),
             description |->
                 Str(<<"Current weather in ">> \o ToText(Get(params, "location_name"))
                     \o <<": ">> \o ToText(condition)
                     \o <<" with temperature of ">>
                     \o ToText(Get(current, "temperature_2m")) \o <<"°">>
                     \o UnitLetter(u.temperature_unit)),
             timestamp |-> Str(<<"now">>)])

\* The catch of fetchWeatherData: every failure is rethrown as one Error.
FetchCatch(e) ==
    Err(<<"Failed to fetch weather data: ">>
        \o (IF e.isError THEN e.message ELSE <<"Unknown error">>))

Threw(e) == [threw |-> TRUE, error |-> e]
Returned(v) == [threw |-> FALSE, value |-> v]

\* fetchWeatherData after fetch(url) has settled with `reply`: a rejection,
\* or a response with its ok flag and its body text.
FetchSettled(params, reply) ==
    IF reply.rejected THEN Threw(FetchCatch(reply.error))
    ELSE IF reply.body.json = "malformed" THEN Threw(FetchCatch(JsonSyntaxError))
    ELSE LET data == reply.body.value
             current == Get(data, "current")
         IN  IF ~reply.ok
             THEN IF ~CanDestructure(data)
                  THEN Threw(FetchCatch(TypeErrorOf(<<"null (reading 'reason')">>)))
                  ELSE Threw(FetchCatch(Err(
                           <<"Weather API error: ">>
                           \o ToText(OrElse(Get(data, "reason"), Str(<<"Unknown error">>))))))
             ELSE IF ~CanDestructure(data)
                  THEN Threw(FetchCatch(TypeErrorOf(<<"null (reading 'current')">>)))
             ELSE IF ~CanDestructure(current)
                  THEN Threw(FetchCatch(TypeErrorOf(<<"undefined (reading 'weather_code')">>)))
             ELSE Returned(Reading(params, current))

\* ------------------------------------------------------------ environment
\* process.env.OPENAI_API_KEY: unset, set to the empty string, or set.
ApiKeys == {Undefined, Str(<<>>), Str(<<"sk-test">>)}

\* The values the `query` property of a request body can have.
QueryValues ==
    {Null, Num(0), Num(7)} \cup {Str(q) : q \in SeqsUpTo(QueryChars, MaxQueryLen)}

\* Request bodies: not JSON, the JSON null, an object without `query`, and
\* objects with a `query`.
RequestBodies ==
    {Malformed, Json(Null), Json(Obj(NoFields))}
        \cup {Json(Obj([query |-> v])) : v \in QueryValues}

\* What an outbound call to the language service can throw.
LLMErrors == {Err(<<"Connection error.">>), NonError}

ParisArgs ==
    Obj([latitude |-> Num(49), longitude |-> Num(2),
         location_name |-> Str(<<"Paris">>),
         temperature_unit |-> Str(<<"celsius">>)])

NewYorkArgs ==
    Obj([latitude |-> Num(41), longitude |-> Num(-74),
         location_name |-> Str(<<"New York">>),
         temperature_unit |-> Str(<<"fahrenheit">>),
         wind_unit |-> Str(<<"mph">>),
         pressure_unit |-> Str(<<"mb">>),
         visibility_unit |-> Str(<<"miles">>)])

\* The `arguments` text of a function call item.
ArgumentTexts == {Malformed, Json(Null), Json(ParisArgs), Json(NewYorkArgs)}

\* The items of the `output` list of a language-service response.
OutputItems ==
    {[type |-> "message"],
     [type |-> "function_call", name |-> "other_tool", arguments |-> Json(Obj(NoFields))]}
        \cup {[type |-> "function_call", name |-> "get_weather_data", arguments |-> a] :
                 a \in ArgumentTexts}

Outputs == {Undefined} \cup {Arr(items) : items \in SeqsUpTo(OutputItems, MaxOutputItems)}

OutputTexts == {Str(<<>>), Str(<<"It is usually mild in spring.">>)}

\* The ways responses.create settles.
FirstCallReplies ==
    {Threw(e) : e \in LLMErrors}
        \cup {Returned([output |-> o, output_text |-> t]) : o \in Outputs, t \in OutputTexts}

SampleCodes == {2, 4}

Currents ==
    {Obj([weather_code |-> Num(c), temperature_2m |-> Num(22),
          relative_humidity_2m |-> Num(65), apparent_temperature |-> Num(24),
          pressure_msl |-> Num(1013), wind_speed_10m |-> Num(12),
          wind_direction_10m |-> Num(180), visibility |-> Num(10)]) : c \in SampleCodes}

ProviderReason == Str(<<"Latitude must be in range of -90 to 90">>)

\* The body texts of a provider response.
ProviderBodies ==
    {Malformed, Json(Null),
     Json(Obj([error |-> Bool(TRUE), reason |-> ProviderReason])),
     Json(Obj([error |-> Bool(TRUE), reason |-> Str(<<>>)])),
     Json(Obj([error |-> Bool(TRUE)]))}
        \cup {Json(Obj([current |-> c])) : c \in Currents}

\* The ways fetch(url) followed by response.json() settles.
WeatherReplies ==
    {[rejected |-> TRUE, error |-> Err(<<"fetch failed">>)]}
        \cup {[rejected |-> FALSE, ok |-> b, body |-> x] : b \in BOOLEAN, x \in ProviderBodies}

StructuredFieldNames == {"weather_data", "summary", "recommendations", "additional_info"}

\* The properties of `weather_data` in the JSON schema of the structuring
\* call; the schema is strict and has additionalProperties: false.
StructuringWeatherDataProperties ==
    {"location", "temperature", "temperature_unit", "condition", "humidity",
     "wind_speed", "wind_unit", "wind_direction", "pressure", "pressure_unit",
     "visibility", "visibility_unit", "cloud_cover", "precipitation",
     "apparent_temperature"}

\* The `required` list of `weather_data` in that schema.
StructuringWeatherDataRequired ==
    {"location", "temperature", "temperature_unit", "condition", "humidity",
     "wind_speed", "wind_unit", "wind_direction", "pressure", "pressure_unit",
     "visibility", "visibility_unit", "cloud_cover", "precipitation",
     "apparent_temperature"}

StructuringStringProperties ==
    {"location", "temperature_unit", "condition", "wind_unit", "pressure_unit",
     "visibility_unit"}

\* A `weather_data` object as the schema of the structuring call shapes it.
SchemaShapedWeatherData ==
    Obj([k \in StructuringWeatherDataRequired |->
            IF k \in StructuringStringProperties THEN Str(<<k>>) ELSE Num(1)])

\* The fields of WeatherDataSchema.
WeatherDataSchemaFields ==
    {"location", "temperature", "temperature_unit", "condition", "humidity",
     "wind_speed", "wind_unit", "wind_direction", "pressure", "pressure_unit",
     "visibility", "visibility_unit", "uv_index", "feels_like", "description",
     "timestamp"}

\* The fields of the WeatherData interface of the client page.
PageWeatherDataFields ==
    {"location", "temperature", "temperature_unit", "condition", "humidity",
     "wind_speed", "wind_unit", "wind_direction", "pressure", "pressure_unit",
     "visibility", "visibility_unit", "uv_index", "feels_like", "description",
     "timestamp"}

StructuredFields ==
    [weather_data |-> SchemaShapedWeatherData,
     summary |-> Str(<<"Mild and partly cloudy.">>),
     recommendations |-> Arr(<<>>),
     additional_info |-> Str(<<"No warnings.">>)]

\* output_parsed of the structuring call: null (nothing to parse), or the
\* parsed JSON object with whichever of the four fields the reply carries.
ParsedOutputs ==
    {Null} \cup {Obj([k \in S |-> StructuredFields[k]]) : S \in SUBSET StructuredFieldNames}

\* The ways responses.parse settles.
StructuringReplies ==
    {Threw(e) : e \in LLMErrors}
        \cup {Returned([output_parsed |-> d]) : d \in ParsedOutputs}

\* ------------------------------------------------------------------ state
VARIABLES
    apiKey,       \* process.env.OPENAI_API_KEY
    request,      \* the body text of the request
    pc,           \* where the handler is: start, one of its awaits, done
    query,        \* POST: query
    response,     \* POST: response, the first reply of the language service
    args,         \* POST: args
    weatherData,  \* POST: weatherData
    inflight,     \* the outbound calls that have not settled yet
    log,          \* the outbound calls issued and settled so far, in order
    sent,         \* the HTTP responses the handler has returned
    page,         \* WeatherApp: its state hooks and where handleSubmit is
    suspended     \* the locals of the other calls of POST that are in progress

vars == <<apiKey, request, pc, query, response, args, weatherData, inflight, log, sent,
          page, suspended>>

\* No client page: the request comes from some other caller.
NoPage == [phase |-> "none"]

Init ==
    /\ apiKey \in ApiKeys
    /\ request \in RequestBodies
    /\ pc = "start"
    /\ query = Undefined
    /\ response = Undefined
    /\ args = Undefined
    /\ weatherData = Undefined
    /\ inflight = {}
    /\ log = <<>>
    /\ sent = <<>>
    /\ page = NoPage
    /\ suspended = <<>>

Call(to, input) == [ev |-> "call", to |-> to, input |-> input]
Settled(to, ok, reply) == [ev |-> "settled", to |-> to, ok |-> ok, reply |-> reply]

\* return Response.json(...)
Respond(r) ==
    /\ sent' = Append(sent, r)
    /\ pc' = "done"

\* POST from its entry to its first await of an outbound call.
POSTStart ==
    /\ pc = "start"
    /\ UNCHANGED <<apiKey, request, response, args, weatherData, page, suspended>>
    /\ IF request.json = "malformed"
       THEN /\ Respond(OuterCatch(JsonSyntaxError))
            /\ UNCHANGED <<query, inflight, log>>
       ELSE IF ~CanDestructure(request.value)
       THEN /\ Respond(OuterCatch(TypeErrorOf(<<"null (destructuring 'query')">>)))
            /\ UNCHANGED <<query, inflight, log>>
       ELSE LET q == Get(request.value, "query") IN
            /\ query' = q
            /\ IF ~Truthy(q)
               THEN /\ Respond(QueryRequired)
                    /\ UNCHANGED <<inflight, log>>
               ELSE IF getOpenAIClient(apiKey).threw
               THEN /\ Respond(OuterCatch(getOpenAIClient(apiKey).error))
                    /\ UNCHANGED <<inflight, log>>
               ELSE /\ inflight' = inflight \cup {"llm1"}
                    /\ log' = Append(log, Call("llm1", q))
                    /\ pc' = "awaitCreate"
                    /\ UNCHANGED sent

\* Faulty variant: the tool call is looked for in every item of the output.
CreateSettlesScanningOutput ==
    /\ pc = "awaitCreate"
    /\ "llm1" \in inflight
    /\ UNCHANGED <<apiKey, request, query, page, suspended>>
    /\ \E reply \in FirstCallReplies :
          IF reply.threw
          THEN /\ Respond(OuterCatch(reply.error))
               /\ inflight' = inflight \ {"llm1"}
               /\ log' = Append(log, Settled("llm1", FALSE, reply))
               /\ UNCHANGED <<response, args, weatherData>>
          ELSE LET r == reply.value
                   isCall(x) == x.type = "function_call" /\ x.name = "get_weather_data"
                   found == r.output.t = "array"
                                /\ \E n \in 1..Len(r.output.a) : isCall(r.output.a[n])
                   at == CHOOSE n \in 1..Len(r.output.a) : isCall(r.output.a[n])
               IN
               /\ response' = r
               /\ IF ~found
                  THEN /\ Respond(DirectAnswer(r))
                       /\ inflight' = inflight \ {"llm1"}
                       /\ log' = Append(log, Settled("llm1", TRUE, reply))
                       /\ UNCHANGED <<args, weatherData>>
                  ELSE IF r.output.a[at].arguments.json = "malformed"
                  THEN /\ Respond(OuterCatch(JsonSyntaxError))
                       /\ inflight' = inflight \ {"llm1"}
                       /\ log' = Append(log, Settled("llm1", TRUE, reply))
                       /\ UNCHANGED <<args, weatherData>>
                  ELSE LET a == r.output.a[at].arguments.value IN
                       /\ args' = a
                       /\ UNCHANGED weatherData
                       /\ IF ~CanDestructure(a)
                          THEN /\ Respond(InnerCatch(FetchCatch(
                                      TypeErrorOf(<<"null (destructuring 'latitude')">>))))
                               /\ inflight' = inflight \ {"llm1"}
                               /\ log' = Append(log, Settled("llm1", TRUE, reply))
                          ELSE /\ inflight' = (inflight \ {"llm1"}) \cup {"weather"}
                               /\ log' = log \o <<Settled("llm1", TRUE, reply),
                                                  Call("weather", WeatherUrl(a))>>
                               /\ pc' = "awaitFetch"
                               /\ UNCHANGED sent

\* openai.responses.create settles; POST runs on to its next await or to its
\* response.
CreateSettles ==
    /\ pc = "awaitCreate"
    /\ "llm1" \in inflight
    /\ UNCHANGED <<apiKey, request, query, page, suspended>>
    /\ \E reply \in FirstCallReplies :
          IF reply.threw
          THEN /\ Respond(OuterCatch(reply.error))
               /\ inflight' = inflight \ {"llm1"}
               /\ log' = Append(log, Settled("llm1", FALSE, reply))
               /\ UNCHANGED <<response, args, weatherData>>
          ELSE LET r == reply.value IN
               /\ response' = r
               /\ IF ~IsToolCall(r)
                  THEN /\ Respond(DirectAnswer(r))
                       /\ inflight' = inflight \ {"llm1"}
                       /\ log' = Append(log, Settled("llm1", TRUE, reply))
                       /\ UNCHANGED <<args, weatherData>>
                  ELSE IF r.output.a[1].arguments.json = "malformed"
                  THEN /\ Respond(OuterCatch(JsonSyntaxError))
                       /\ inflight' = inflight \ {"llm1"}
                       /\ log' = Append(log, Settled("llm1", TRUE, reply))
                       /\ UNCHANGED <<args, weatherData>>
                  ELSE LET a == r.output.a[1].arguments.value IN
                       /\ args' = a
                       /\ UNCHANGED weatherData
                       /\ IF ~CanDestructure(a)
                          THEN /\ Respond(InnerCatch(FetchCatch(
                                      TypeErrorOf(<<"null (destructuring 'latitude')">>))))
                               /\ inflight' = inflight \ {"llm1"}
                               /\ log' = Append(log, Settled("llm1", TRUE, reply))
                          ELSE /\ inflight' = (inflight \ {"llm1"}) \cup {"weather"}
                               /\ log' = log \o <<Settled("llm1", TRUE, reply),
                                                  Call("weather", WeatherUrl(a))>>
                               /\ pc' = "awaitFetch"
                               /\ UNCHANGED sent

\* Faulty variant: a failed fetch is tried once more before giving up.
FetchSettlesRetrying ==
    /\ pc = "awaitFetch"
    /\ "weather" \in inflight
    /\ UNCHANGED <<apiKey, request, query, response, args, page, suspended>>
    /\ \E reply \in WeatherReplies :
          LET result == FetchSettled(args, reply)
              calls == Cardinality({i \in 1..Len(log) :
                                       log[i].ev = "call" /\ log[i].to = "weather"})
          IN
          IF result.threw /\ calls < 2
          THEN /\ log' = log \o <<Settled("weather", FALSE, reply),
                                  Call("weather", WeatherUrl(args))>>
               /\ UNCHANGED <<weatherData, inflight, pc, sent>>
          ELSE IF result.threw
          THEN /\ Respond(InnerCatch(result.error))
               /\ inflight' = inflight \ {"weather"}
               /\ log' = Append(log, Settled("weather", FALSE, reply))
               /\ UNCHANGED weatherData
          ELSE /\ weatherData' = result.value
               /\ inflight' = (inflight \ {"weather"}) \cup {"llm2"}
               /\ log' = log \o <<Settled("weather", TRUE, reply),
                                  Call("llm2", <<result.value, query>>)>>
               /\ pc' = "awaitParse"
               /\ UNCHANGED sent

\* fetch(url) and response.json() settle inside fetchWeatherData; POST runs on
\* to the structuring call or to its response.
FetchSettles ==
    /\ pc = "awaitFetch"
    /\ "weather" \in inflight
    /\ UNCHANGED <<apiKey, request, query, response, args, page, suspended>>
    /\ \E reply \in WeatherReplies :
          LET result == FetchSettled(args, reply) IN
          IF result.threw
          THEN /\ Respond(InnerCatch(result.error))
               /\ inflight' = inflight \ {"weather"}
               /\ log' = Append(log, Settled("weather", FALSE, reply))
               /\ UNCHANGED weatherData
          ELSE /\ weatherData' = result.value
               /\ inflight' = (inflight \ {"weather"}) \cup {"llm2"}
               /\ log' = log \o <<Settled("weather", TRUE, reply),
                                  Call("llm2", <<result.value, query>>)>>
               /\ pc' = "awaitParse"
               /\ UNCHANGED sent

\* openai.responses.parse settles; POST returns its response.
ParseSettles ==
    /\ pc = "awaitParse"
    /\ "llm2" \in inflight
    /\ UNCHANGED <<apiKey, request, query, response, args, weatherData, page, suspended>>
    /\ \E reply \in StructuringReplies :
          /\ inflight' = inflight \ {"llm2"}
          /\ log' = Append(log, Settled("llm2", ~reply.threw, reply))
          /\ IF reply.threw
             THEN Respond(InnerCatch(reply.error))
             ELSE Respond(ToolCallSuccess(reply.value, weatherData))

Next == POSTStart \/ CreateSettles \/ FetchSettles \/ ParseSettles

Spec == Init /\ [][Next]_vars

\* Every outbound call settles and the handler runs whenever it can.
FairSpec == Spec /\ WF_vars(Next)

TypeOK ==
    /\ pc \in {"start", "awaitCreate", "awaitFetch", "awaitParse", "done",
              "fetch", "fetched", "threw", "idle"}
    /\ inflight \subseteq {"llm1", "weather", "llm2"}
    /\ Len(sent) <= 1

\* ------------------------------------------------------- reading the history
Done == pc = "done"

CallsTo(to) == Cardinality({i \in 1..Len(log) : log[i].ev = "call" /\ log[i].to = to})

NoOutboundCall == \A i \in 1..Len(log) : log[i].ev # "call"

\* h contains n as a contiguous piece.
Contains(h, n) ==
    \E i \in 0..(Len(h) - Len(n)) : SubSeq(h, i + 1, i + Len(n)) = n

IsString(v) == v.t = "string"

\* The request body is a JSON object.
BodyIsObject == request.json = "ok" /\ request.value.t = "object"

\* The `query` of the request body, when the body is an object.
SentQuery == Get(request.value, "query")

\* ---------------------------------------------------------------------- C1
\* C1: a request whose body has a missing or empty-string query is answered
\* with status 400 and body {error: "Query is required"}, and no outbound call
\* is made during that request, whether or not the credential is configured.
QueryMissingOrEmpty == BodyIsObject /\ SentQuery \in {Undefined, Str(<<>>)}

EmptyQueryRejected ==
    QueryMissingOrEmpty =>
        /\ NoOutboundCall
        /\ inflight = {}
        /\ Done => /\ Len(sent) = 1
                   /\ sent[1].status = 400
                   /\ sent[1].body = [error |-> Str(<<"Query is required">>)]

EmptyQueryRejectedWitness ==
    /\ Done
    /\ BodyIsObject
    /\ SentQuery = Str(<<>>)
    /\ apiKey = Str(<<"sk-test">>)
    /\ sent[1].status = 400

\* ---------------------------------------------------------------------- C2
\* C2: a whitespace-only query (one or more spaces, tabs or newlines and
\* nothing else) sent to the endpoint is answered with a validation failure
\* and no outbound call is made.
WhitespaceOnly(v) ==
    /\ IsString(v)
    /\ Len(v.s) >= 1
    /\ \A i \in 1..Len(v.s) : v.s[i] \in Whitespace

WhitespaceQueryRejected ==
    (BodyIsObject /\ WhitespaceOnly(SentQuery)) =>
        /\ NoOutboundCall
        /\ Done => /\ Len(sent) = 1
                   /\ sent[1].status = 400

\* ---------------------------------------------------------------------- C3
\* C3: when the first language-service call returns a direct text answer (no
\* tool call), the response is 200 {success: true, message: <that text>}, or
\* the fixed fallback string when the text is empty; the weather provider is
\* never called and no second language-service call is made.
FirstCallReturned == response # Undefined

NoFunctionCallItem ==
    \/ response.output.t # "array"
    \/ \A i \in 1..Len(response.output.a) : response.output.a[i].type # "function_call"

DirectTextAnswer == FirstCallReturned /\ NoFunctionCallItem

DirectAnswerReturned ==
    DirectTextAnswer =>
        /\ Done
        /\ Len(sent) = 1
        /\ sent[1].status = 200
        /\ sent[1].body =
              [success |-> Bool(TRUE),
               message |-> IF response.output_text.s # <<>>
                           THEN response.output_text
                           ELSE FallbackMessage]
        /\ CallsTo("weather") = 0
        /\ CallsTo("llm2") = 0
        /\ CallsTo("llm1") = 1

DirectAnswerReturnedWitness ==
    /\ Done
    /\ DirectTextAnswer
    /\ response.output = Arr(<<[type |-> "message"]>>)
    /\ response.output_text # Str(<<>>)
    /\ sent[1].body.message = response.output_text

\* ---------------------------------------------------------------------- C4
\* C4: when the language service requests the weather tool and the provider
\* replies with a non-success status, the response is 500 {error: "Failed to
\* fetch weather data", details: <string>} where details contains the
\* provider's reported reason, or "Unknown error" when the provider gave none.
ProviderReplied ==
    \E i \in 1..Len(log) :
        log[i].ev = "settled" /\ log[i].to = "weather" /\ ~log[i].reply.rejected

ProviderReply ==
    log[CHOOSE i \in 1..Len(log) : log[i].ev = "settled" /\ log[i].to = "weather"].reply

\* The reason the provider reported: the non-empty string `reason` of its
\* JSON body, if there is one.
ReportedReason(reply) ==
    IF reply.body.json = "ok" THEN Get(reply.body.value, "reason") ELSE Undefined

GaveReason(reply) == IsString(ReportedReason(reply)) /\ ReportedReason(reply).s # <<>>

ProviderFailureReported ==
    (ProviderReplied /\ ~ProviderReply.ok) =>
        /\ Done
        /\ Len(sent) = 1
        /\ sent[1].status = 500
        /\ DOMAIN sent[1].body = {"error", "details"}
        /\ sent[1].body.error = Str(<<"Failed to fetch weather data">>)
        /\ IsString(sent[1].body.details)
        /\ IF GaveReason(ProviderReply)
           THEN Contains(sent[1].body.details.s, ReportedReason(ProviderReply).s)
           ELSE Contains(sent[1].body.details.s, <<"Unknown error">>)

\* ---------------------------------------------------------------------- C5
\* C5: the four failure kinds of a request (empty query, language-service
\* failure or malformed reply, weather provider failure, failure of the
\* structuring call) are told apart by the status and `error` of the
\* response; a failure of the structuring call is not reported with the
\* status and `error` of a weather provider failure.
SettledWith(to, ok) ==
    \E i \in 1..Len(log) : log[i].ev = "settled" /\ log[i].to = to /\ log[i].ok = ok

ValidationFailure == BodyIsObject /\ SentQuery \in {Undefined, Str(<<>>)}

UpstreamFailure ==
    \/ SettledWith("llm1", FALSE)
    \/ /\ FirstCallReturned
       /\ IsToolCall(response)
       /\ response.output.a[1].arguments.json = "malformed"

WeatherFailure == SettledWith("weather", FALSE)

StructuringFailure == SettledWith("llm2", FALSE)

Signature(r) == <<r.status, Get(Obj(r.body), "error")>>

ValidationSignature == <<400, Str(<<"Query is required">>)>>
UpstreamSignature == <<500, Str(<<"Internal server error">>)>>
WeatherSignature == <<500, Str(<<"Failed to fetch weather data">>)>>

FailureKindsDistinguishable ==
    Done =>
        /\ ValidationFailure => Signature(sent[1]) = ValidationSignature
        /\ UpstreamFailure => Signature(sent[1]) = UpstreamSignature
        /\ WeatherFailure => Signature(sent[1]) = WeatherSignature
        /\ StructuringFailure =>
              /\ sent[1].status >= 400
              /\ Signature(sent[1]) \notin
                    {ValidationSignature, UpstreamSignature, WeatherSignature}

\* ---------------------------------------------------------------------- C6
\* C6: every response of the full tool-call shape (status 200, success true
\* and a `data` field) carries a `data` object with all four of weather_data,
\* summary, recommendations and additional_info, whatever the structuring
\* call replied; a missing, null or incomplete reply is not passed through.
FullToolCallShape ==
    /\ Done
    /\ sent[1].status = 200
    /\ "data" \in DOMAIN sent[1].body
    /\ Get(Obj(sent[1].body), "success") = Bool(TRUE)

StructuredDataComplete ==
    FullToolCallShape =>
        /\ sent[1].body.data.t = "object"
        /\ StructuredFieldNames \subseteq DOMAIN sent[1].body.data.f

\* ---------------------------------------------------------------------- C7
\* C7: when the credential is absent and the query is non-empty, the request
\* fails at the first attempted use of the language service with an error
\* response whose details name the missing credential, and no outbound call
\* is made.
CredentialAbsent == apiKey \in {Undefined, Str(<<>>)}

QueryNonEmpty ==
    /\ BodyIsObject
    /\ SentQuery \notin {Undefined, Null, Str(<<>>), Num(0)}

MissingCredentialReported ==
    (CredentialAbsent /\ QueryNonEmpty) =>
        /\ NoOutboundCall
        /\ inflight = {}
        /\ pc \in {"start", "done"}
        /\ Done => /\ Len(sent) = 1
                   /\ sent[1].status >= 400
                   /\ DOMAIN sent[1].body = {"error", "details"}
                   /\ IsString(sent[1].body.error)
                   /\ IsString(sent[1].body.details)
                   /\ Contains(sent[1].body.details.s, <<"OPENAI_API_KEY">>)

MissingCredentialReportedWitness ==
    /\ Done
    /\ apiKey = Undefined
    /\ BodyIsObject
    /\ SentQuery = Str(<<"a">>)
    /\ sent[1].status = 500

\* ---------------------------------------------------------------------- C8
\* C8: every request ends with exactly one HTTP response, provided each
\* outbound call eventually returns or fails; whichever step fails (body
\* parsing, credential check, first language-service call, parsing of the
\* tool arguments, weather fetch, structuring call), the failure is caught in
\* the handler and turned into an error response with an `error` string and
\* a `details` string.
BodyParsingFailed ==
    \/ request.json = "malformed"
    \/ request.json = "ok" /\ ~CanDestructure(request.value)

ToolArgumentsFailed ==
    /\ FirstCallReturned
    /\ response.output.t = "array"
    /\ Len(response.output.a) > 0
    /\ response.output.a[1].type = "function_call"
    /\ response.output.a[1].name = "get_weather_data"
    /\ \/ response.output.a[1].arguments.json = "malformed"
       \/ ~CanDestructure(response.output.a[1].arguments.value)

SomeStepFailed ==
    \/ BodyParsingFailed
    \/ CredentialAbsent /\ QueryNonEmpty
    \/ SettledWith("llm1", FALSE)
    \/ ToolArgumentsFailed
    \/ WeatherFailure
    \/ StructuringFailure

IsErrorResponse(r) ==
    /\ r.status >= 400
    /\ {"error", "details"} \subseteq DOMAIN r.body
    /\ IsString(r.body.error) /\ r.body.error.s # <<>>
    /\ IsString(r.body.details) /\ r.body.details.s # <<>>

OneResponseNoEscape ==
    /\ Len(sent) <= 1
    /\ Done <=> Len(sent) = 1
    /\ Done => inflight = {}
    /\ (Done /\ SomeStepFailed) => IsErrorResponse(sent[1])

EveryRequestAnswered == []OneResponseNoEscape /\ <>Done

EveryRequestAnsweredWitness ==
    /\ Done
    /\ StructuringFailure
    /\ IsErrorResponse(sent[1])

\* ---------------------------------------------------------------------- C9
\* C9: within one request the outbound calls are strictly ordered: the
\* weather provider is called only after the first language-service call has
\* completed with a tool call, the second language-service call is issued
\* only after the weather provider call has completed successfully, and no
\* two outbound calls are in flight at the same time.
IsCall(i, to) == log[i].ev = "call" /\ log[i].to = to

CompletedWithToolCall(j) ==
    /\ log[j].ev = "settled" /\ log[j].to = "llm1" /\ log[j].ok
    /\ ~log[j].reply.threw
    /\ log[j].reply.value.output.t = "array"
    /\ \E k \in 1..Len(log[j].reply.value.output.a) :
          /\ log[j].reply.value.output.a[k].type = "function_call"
          /\ log[j].reply.value.output.a[k].name = "get_weather_data"

FetchSucceeded(j) ==
    /\ log[j].ev = "settled" /\ log[j].to = "weather" /\ log[j].ok
    /\ ~log[j].reply.rejected
    /\ log[j].reply.ok

Unsettled(i) ==
    {c \in {"llm1", "weather", "llm2"} :
        \E j \in 1..i : /\ IsCall(j, c)
                        /\ \A k \in (j + 1)..i : ~(log[k].ev = "settled" /\ log[k].to = c)}

StrictlySequential ==
    /\ Cardinality(inflight) <= 1
    /\ inflight = Unsettled(Len(log))
    /\ \A i \in 1..Len(log) :
          /\ Cardinality(Unsettled(i)) <= 1
          /\ IsCall(i, "weather") => \E j \in 1..(i - 1) : CompletedWithToolCall(j)
          /\ IsCall(i, "llm2") => \E j \in 1..(i - 1) : FetchSucceeded(j)

StrictlySequentialWitness ==
    /\ pc = "awaitParse"
    /\ inflight = {"llm2"}
    /\ CallsTo("weather") = 1

\* --------------------------------------------------------------------- C10
\* C10: no step is retried: in a request the language service is called at
\* most twice and the weather provider at most once, and after a weather
\* fetch failure no further outbound call is made before the request ends in
\* failure.
NoRetry ==
    /\ CallsTo("llm1") + CallsTo("llm2") <= 2
    /\ CallsTo("llm1") <= 1
    /\ CallsTo("llm2") <= 1
    /\ CallsTo("weather") <= 1
    /\ \A i \in 1..Len(log) :
          (log[i].ev = "settled" /\ log[i].to = "weather" /\ ~log[i].ok) =>
              /\ \A j \in (i + 1)..Len(log) : log[j].ev # "call"
              /\ Done
              /\ Len(sent) = 1
              /\ sent[1].status >= 400

NoRetryWitness ==
    /\ Done
    /\ WeatherFailure
    /\ CallsTo("weather") = 1
    /\ CallsTo("llm1") = 1

\* ================================================= fetchWeatherData alone
\* fetchWeatherData called on its own, over a wider range of invocations and
\* provider replies than the request model draws from: `args` is the
\* invocation, `log` the provider call and its reply, `weatherData` the
\* returned reading.
MaxCode == 100
MaxMantissa == 4

\* The weather codes a provider response can carry: a number that is no code,
\* and every number up to MaxCode.
ProviderCodes == {-1} \cup 0..MaxCode

UnitNames == {"temperature_unit", "wind_unit", "pressure_unit", "visibility_unit"}

\* For each unit preference: left out, or one of the two values of its enum.
UnitChoices ==
    [temperature_unit : {"", "celsius", "fahrenheit"},
     wind_unit : {"", "kmh", "mph"},
     pressure_unit : {"", "hPa", "mb"},
     visibility_unit : {"", "km", "miles"}]

InvocationOf(choice) ==
    Obj([k \in {"latitude", "longitude", "location_name"}
                  \cup {u \in UnitNames : choice[u] # ""} |->
            CASE k = "latitude" -> Num(49)
              [] k = "longitude" -> Num(2)
              [] k = "location_name" -> Str(<<"Paris">>)
              [] OTHER -> Str(<<choice[k]>>)])

Invocations == {InvocationOf(c) : c \in UnitChoices}

\* Provider numbers with up to one decimal place, and a usual pressure.
ProviderNumbers ==
    {[t |-> "number", n |-> n, e |-> e] : n \in 0..MaxMantissa, e \in {0, -1}}
        \cup {Num(1013)}

WindDirections == {Num(-90), Num(0), Num(180), Num(359), Num(360), Num(725)}

BaseCurrent ==
    [weather_code |-> Num(2), temperature_2m |-> Num(22),
     relative_humidity_2m |-> Num(65), apparent_temperature |-> Num(24),
     pressure_msl |-> Num(1013), wind_speed_10m |-> Num(12),
     wind_direction_10m |-> Num(180), visibility |-> Num(10)]

\* The `current` objects: the base one with one of its metrics varied.
WideCurrents ==
    {Obj([BaseCurrent EXCEPT !.weather_code = Num(c)]) : c \in ProviderCodes}
        \cup {Obj([BaseCurrent EXCEPT !.pressure_msl = p]) : p \in ProviderNumbers}
        \cup {Obj([BaseCurrent EXCEPT !.visibility = v]) : v \in ProviderNumbers}
        \cup {Obj([BaseCurrent EXCEPT !.wind_direction_10m = d]) : d \in WindDirections}
        \cup {Obj([k \in DOMAIN BaseCurrent \ {"weather_code"} |-> BaseCurrent[k]])}

WideReplies ==
    {[rejected |-> FALSE, ok |-> TRUE, body |-> Json(Obj([current |-> c]))] :
        c \in WideCurrents}
        \cup {[rejected |-> FALSE, ok |-> FALSE,
               body |-> Json(Obj([error |-> Bool(TRUE), reason |-> ProviderReason]))]}

FetcherInit ==
    /\ apiKey = Undefined
    /\ request = Malformed
    /\ pc = "fetch"
    /\ query = Undefined
    /\ response = Undefined
    /\ args \in Invocations
    /\ weatherData = Undefined
    /\ inflight = {}
    /\ log = <<>>
    /\ sent = <<>>
    /\ page = NoPage
    /\ suspended = <<>>

\* fetchWeatherData(args), from the call to its return or its throw.
FetchWeatherData ==
    /\ pc = "fetch"
    /\ UNCHANGED <<apiKey, request, query, response, args, inflight, sent,
                   page, suspended>>
    /\ \E reply \in WideReplies :
          LET result == FetchSettled(args, reply) IN
          /\ log' = <<Call("weather", WeatherUrl(args)),
                      Settled("weather", ~result.threw, reply)>>
          /\ IF result.threw
             THEN /\ pc' = "threw"
                  /\ UNCHANGED weatherData
             ELSE /\ pc' = "fetched"
                  /\ weatherData' = result.value

FetcherNext == FetchWeatherData

FetcherSpec == FetcherInit /\ [][FetcherNext]_vars

Fetched == pc = "fetched"

\* The `current` object of the provider reply that the reading was made from.
FetchedCurrent == Get(log[2].reply.body.value, "current")

\* --------------------------------------------------------------------- C11
\* C11: for every tool invocation for which the provider succeeds, each of
\* the four unit fields of the reading equals the unit requested in the
\* invocation, or the default (celsius, kmh, hPa, km) when it is left out.
RequestedOrDefault(name, default) ==
    IF name \in DOMAIN args.f THEN args.f[name] ELSE Str(<<default>>)

UnitsAsRequested ==
    Fetched =>
        /\ weatherData.f.temperature_unit = RequestedOrDefault("temperature_unit", "celsius")
        /\ weatherData.f.wind_unit = RequestedOrDefault("wind_unit", "kmh")
        /\ weatherData.f.pressure_unit = RequestedOrDefault("pressure_unit", "hPa")
        /\ weatherData.f.visibility_unit = RequestedOrDefault("visibility_unit", "km")

UnitsAsRequestedWitness ==
    /\ Fetched
    /\ DOMAIN args.f \cap UnitNames = {"temperature_unit", "pressure_unit"}
    /\ weatherData.f.temperature_unit = Str(<<"fahrenheit">>)
    /\ weatherData.f.pressure_unit = Str(<<"mb">>)
    /\ weatherData.f.wind_unit = Str(<<"kmh">>)
    /\ weatherData.f.visibility_unit = Str(<<"km">>)

\* --------------------------------------------------------------------- C12
\* C12: the weather-code lookup is total: for every code the provider
\* returns the fetcher produces a condition string; a code with a table entry
\* yields that entry's text (0 -> "clear sky", 2 -> "partly cloudy",
\* 99 -> "thunderstorm with heavy hail") and a code without one yields
\* "unknown".
FetchedCode == Get(FetchedCurrent, "weather_code")

HasTableEntry(code) == code.t = "number" /\ code.n \in DOMAIN weatherConditions

ConditionLookupTotal ==
    Fetched =>
        /\ IsString(weatherData.f.condition)
        /\ weatherData.f.condition.s # <<>>
        /\ HasTableEntry(FetchedCode) =>
              weatherData.f.condition = Str(<<weatherConditions[FetchedCode.n]>>)
        /\ ~HasTableEntry(FetchedCode) => weatherData.f.condition = Str(<<"unknown">>)
        /\ FetchedCode = Num(0) => weatherData.f.condition = Str(<<"clear sky">>)
        /\ FetchedCode = Num(2) => weatherData.f.condition = Str(<<"partly cloudy">>)
        /\ FetchedCode = Num(99) =>
              weatherData.f.condition = Str(<<"thunderstorm with heavy hail">>)

ConditionLookupTotalWitness ==
    /\ Fetched
    /\ FetchedCode = Num(4)
    /\ weatherData.f.condition = Str(<<"unknown">>)

\* --------------------------------------------------------------------- C13
\* C13: for every successful fetch the description is "Current weather in
\* {location_name}: {condition} with temperature of {temperature}°{C|F}",
\* with the caller's location name, the looked-up condition of the provider's
\* code, and C exactly when the temperature unit is celsius, F otherwise; an
\* invocation for "Paris" in celsius with weather_code 2 yields the condition
\* "partly cloudy" and a description containing "Current weather in Paris:
\* partly cloudy".
LookedUpCondition ==
    IF HasTableEntry(FetchedCode) THEN <<weatherConditions[FetchedCode.n]>>
    ELSE <<"unknown">>

ExpectedDescription ==
    <<"Current weather in ">> \o ToText(Get(args, "location_name")) \o <<": ">>
        \o LookedUpCondition \o <<" with temperature of ">>
        \o ToText(Get(FetchedCurrent, "temperature_2m")) \o <<"°">>
        \o (IF weatherData.f.temperature_unit = Str(<<"celsius">>)
            THEN <<"C">> ELSE <<"F">>)

ParisCelsiusPartlyCloudy ==
    /\ Get(args, "location_name") = Str(<<"Paris">>)
    /\ Get(args, "temperature_unit") = Str(<<"celsius">>)
    /\ FetchedCode = Num(2)

DescriptionFormat ==
    Fetched =>
        /\ weatherData.f.description = Str(ExpectedDescription)
        /\ ParisCelsiusPartlyCloudy =>
              /\ weatherData.f.condition = Str(<<"partly cloudy">>)
              /\ Contains(weatherData.f.description.s,
                          <<"Current weather in ", "Paris", ": ", "partly cloudy">>)
              /\ weatherData.f.description.s[Len(weatherData.f.description.s)] = "C"

DescriptionFormatWitness ==
    /\ Fetched
    /\ ParisCelsiusPartlyCloudy
    /\ weatherData.f.description =
          Str(<<"Current weather in ", "Paris", ": ", "partly cloudy",
                " with temperature of ", "22", "°", "C">>)

\* --------------------------------------------------------------------- C14
\* C14: for every provider pressure value p the reading's pressure is
\* p * 0.01 when the requested pressure unit is "mb", and p unchanged when it
\* is "hPa" or left out.
RECURSIVE Pow10(_)
Pow10(k) == IF k = 0 THEN 1 ELSE 10 * Pow10(k - 1)

\* a and b are numbers of the same value.
SameNumber(a, b) ==
    /\ a.t = "number" /\ b.t = "number"
    /\ LET m == IF a.e < b.e THEN a.e ELSE b.e
       IN  a.n * Pow10(a.e - m) = b.n * Pow10(b.e - m)

\* The decimal n * 10^e.
Decimal(n, e) == [t |-> "number", n |-> n, e |-> e]

ProviderPressure == Get(FetchedCurrent, "pressure_msl")

PressureConversion ==
    Fetched =>
        IF Get(args, "pressure_unit") = Str(<<"mb">>)
        THEN SameNumber(weatherData.f.pressure,
                        Decimal(ProviderPressure.n, ProviderPressure.e - 2))
        ELSE weatherData.f.pressure = ProviderPressure

PressureConversionWitness ==
    /\ Fetched
    /\ Get(args, "pressure_unit") = Str(<<"mb">>)
    /\ ProviderPressure = Num(1013)
    /\ SameNumber(weatherData.f.pressure, Decimal(1013, -2))
    /\ ~SameNumber(weatherData.f.pressure, ProviderPressure)

\* --------------------------------------------------------------------- C15
\* C15: for every provider visibility value v the reading's visibility is
\* v * 0.621371 when the requested visibility unit is "miles", and v
\* unchanged when it is "km" or left out.
ProviderVisibility == Get(FetchedCurrent, "visibility")

VisibilityConversion ==
    Fetched =>
        IF Get(args, "visibility_unit") = Str(<<"miles">>)
        THEN SameNumber(weatherData.f.visibility,
                        Decimal(ProviderVisibility.n * 621371, ProviderVisibility.e - 6))
        ELSE weatherData.f.visibility = ProviderVisibility

VisibilityConversionWitness ==
    /\ Fetched
    /\ Get(args, "visibility_unit") = Str(<<"miles">>)
    /\ ProviderVisibility = Decimal(3, -1)
    /\ SameNumber(weatherData.f.visibility, Decimal(1864113, -7))

\* --------------------------------------------------------------------- C17
\* C17: the condition lookup table has entries for 27 distinct weather codes
\* in total.
\* The codes for which the lookup yields a table text.
KnownCodes == {c \in ProviderCodes : Condition(Num(c)) # Str(<<"unknown">>)}

ConditionTableHas27Codes ==
    Fetched =>
        /\ Cardinality(DOMAIN weatherConditions) = 27
        /\ Cardinality(KnownCodes) = 27

\* C17 as amended: the condition lookup table has entries for 28 distinct
\* weather codes in total.
ConditionTableHas28Codes ==
    Fetched =>
        /\ Cardinality(DOMAIN weatherConditions) = 28
        /\ Cardinality(KnownCodes) = 28
        /\ HasTableEntry(FetchedCode) => FetchedCode.n \in KnownCodes

ConditionTableHas28CodesWitness ==
    /\ Fetched
    /\ FetchedCode = Num(77)
    /\ weatherData.f.condition = Str(<<"snow grains">>)
    /\ 77 \in KnownCodes

\* --------------------------------------------------------------------- C18
\* C18: in every reading produced by the fetcher the wind direction lies in
\* [0, 360): whatever direction the provider reports (including 360 or a
\* negative value), the reading's wind_direction is normalized into that
\* range.
ProviderWindDirection == Get(FetchedCurrent, "wind_direction_10m")

InDegreeRange(v) ==
    /\ v.t = "number"
    /\ v.n >= 0
    /\ v.n < 360 * Pow10(-v.e)

WindDirectionNormalized == Fetched => InDegreeRange(weatherData.f.wind_direction)

\* C18 as amended: the reading's wind_direction is the provider's
\* wind_direction_10m unchanged; it lies in [0, 360) exactly when the
\* provider's value does.
WindDirectionPassedThrough ==
    Fetched =>
        /\ weatherData.f.wind_direction = ProviderWindDirection
        /\ InDegreeRange(weatherData.f.wind_direction) <=> InDegreeRange(ProviderWindDirection)

WindDirectionPassedThroughWitness ==
    /\ Fetched
    /\ ProviderWindDirection = Num(360)
    /\ weatherData.f.wind_direction = Num(360)

\* --------------------------------------------------------------------- C19
\* C19: the `weather_data` object of a StructuredResponse is a WeatherReading
\* or a superset of one: every WeatherReading field (including uv_index,
\* feels_like, description and timestamp, which the client page renders) is
\* a field that the strict structuring schema allows and requires in
\* `weather_data`.
ReadingMade == weatherData # Undefined

WeatherDataHoldsReading ==
    ReadingMade =>
        /\ DOMAIN weatherData.f = WeatherDataSchemaFields
        /\ DOMAIN weatherData.f = PageWeatherDataFields
        /\ DOMAIN weatherData.f \subseteq StructuringWeatherDataProperties
        /\ DOMAIN weatherData.f \subseteq StructuringWeatherDataRequired
        /\ (FullToolCallShape /\ Get(sent[1].body.data, "weather_data").t = "object") =>
              DOMAIN weatherData.f \subseteq DOMAIN sent[1].body.data.f.weather_data.f

\* ------------------------------------------------- the page: WeatherApp
\* String.prototype.trim
RECURSIVE TrimStart(_)
TrimStart(s) == IF s # <<>> /\ Head(s) \in Whitespace THEN TrimStart(Tail(s)) ELSE s

RECURSIVE TrimEnd(_)
TrimEnd(s) ==
    IF s # <<>> /\ s[Len(s)] \in Whitespace THEN TrimEnd(SubSeq(s, 1, Len(s) - 1)) ELSE s

Trim(s) == TrimEnd(TrimStart(s))

\* What the user can have in the textarea.
TypedQueries == SeqsUpTo(QueryChars, MaxQueryLen)

\* useState(''), useState(false), useState<WeatherData | null>(null),
\* useState<string | null>(null); `received` is handleSubmit's local `data`
\* together with the status of its local `response`.
FreshPage ==
    [phase |-> "idle", query |-> <<>>, loading |-> FALSE,
     weatherData |-> Null, error |-> Null, received |-> Undefined]

\* body: JSON.stringify({ query: query.trim() })
SubmittedBody(q) == Json(Obj([query |-> Str(Trim(q))]))

\* response.ok
Ok(r) == r.status \in 200..299

\* Faulty variant: the message is taken from the `details` field.
NotOkMessageFromDetails(data) ==
    ToText(OrElse(Get(data, "details"), Str(<<"Failed to fetch weather data">>)))

\* new Error(data.error || 'Failed to fetch weather data').message
NotOkMessage(data) ==
    ToText(OrElse(Get(data, "error"), Str(<<"Failed to fetch weather data">>)))

\* Faulty variant: the response's `message` is not read.
NoDataMessageFixed(data) == <<"No weather data received">>

\* new Error(data.message || 'No weather data received').message
NoDataMessage(data) ==
    ToText(OrElse(Get(data, "message"), Str(<<"No weather data received">>)))

\* The rejection of fetch itself.
FetchFailed == Err(<<"Failed to fetch">>)

\* catch (err): err instanceof Error ? err.message : 'An error occurred'
CaughtMessage(e) == IF e.isError THEN e.message ELSE <<"An error occurred">>

\* {error && (<Alert variant="destructive"> ... {error} ... </Alert>)}
Alert(p) ==
    IF Truthy(p.error)
    THEN [shown |-> TRUE, title |-> <<"Error">>, description |-> p.error.s]
    ELSE [shown |-> FALSE]

\* The handler is not running: what the server variables hold between requests.
ServerIdle ==
    /\ request = Malformed
    /\ pc = "idle"
    /\ query = Undefined
    /\ response = Undefined
    /\ args = Undefined
    /\ weatherData = Undefined
    /\ inflight = {}
    /\ log = <<>>
    /\ sent = <<>>

ClientInit ==
    /\ apiKey \in ApiKeys
    /\ ServerIdle
    /\ page = FreshPage
    /\ suspended = <<>>

\* onChange={(e) => setQuery(e.target.value)} and the example buttons.
SetQuery ==
    /\ page.phase = "idle"
    /\ \E q \in TypedQueries : page' = [page EXCEPT !.query = q]
    /\ UNCHANGED <<apiKey, request, pc, query, response, args, weatherData, inflight,
                   log, sent, suspended>>

\* handleSubmit from its entry to its await of fetch.
HandleSubmit ==
    /\ page.phase = "idle"
    /\ UNCHANGED <<apiKey, query, response, args, weatherData, inflight, log, sent,
                   suspended>>
    /\ IF Trim(page.query) = <<>>
       THEN UNCHANGED <<page, request, pc>>
       ELSE /\ page' = [page EXCEPT !.phase = "waiting", !.loading = TRUE,
                                    !.error = Null, !.weatherData = Null,
                                    !.received = Undefined]
            /\ request' = SubmittedBody(page.query)
            /\ pc' = "start"

\* Faulty variant: the textarea is cleared when the submission is over.
SettleClearingQuery(p) ==
    /\ page' = [p EXCEPT !.phase = "idle", !.loading = FALSE, !.query = <<>>]
    /\ request' = Malformed
    /\ pc' = "idle"
    /\ query' = Undefined
    /\ response' = Undefined
    /\ args' = Undefined
    /\ weatherData' = Undefined
    /\ inflight' = {}
    /\ log' = <<>>
    /\ sent' = <<>>
    /\ UNCHANGED <<apiKey, suspended>>

\* handleSubmit after its awaits, through catch and finally; the handler's
\* call is over.
Settle(p) ==
    /\ page' = [p EXCEPT !.phase = "idle", !.loading = FALSE]
    /\ request' = Malformed
    /\ pc' = "idle"
    /\ query' = Undefined
    /\ response' = Undefined
    /\ args' = Undefined
    /\ weatherData' = Undefined
    /\ inflight' = {}
    /\ log' = <<>>
    /\ sent' = <<>>
    /\ UNCHANGED <<apiKey, suspended>>

\* fetch resolves with the handler's response.
ResponseArrives ==
    /\ page.phase = "waiting"
    /\ pc = "done"
    /\ LET r == sent[1]
           data == Obj(r.body)
           got == [page EXCEPT !.received = r]
       IN  IF ~Ok(r)
           THEN Settle([got EXCEPT !.error = Str(CaughtMessage(Err(NotOkMessage(data))))])
           ELSE IF Truthy(Get(data, "success")) /\ Truthy(Get(data, "data"))
           THEN Settle([got EXCEPT !.weatherData = Get(data, "data")])
           ELSE Settle([got EXCEPT !.error = Str(CaughtMessage(Err(NoDataMessage(data))))])

\* fetch rejects: the request or its response is lost.
FetchRejects ==
    /\ page.phase = "waiting"
    /\ pc \in {"start", "done"}
    /\ Settle([page EXCEPT !.error = Str(CaughtMessage(FetchFailed))])

ClientNext ==
    \/ SetQuery
    \/ HandleSubmit
    \/ POSTStart
    \/ CreateSettles
    \/ FetchSettles
    \/ ParseSettles
    \/ ResponseArrives
    \/ FetchRejects

ClientSpec == ClientInit /\ [][ClientNext]_vars

\* --------------------------------------------------------------------- C20
\* C20: when a submitted request comes back as an error response, the page's
\* inline alert shows what the response's `error` field says and, when the
\* response has one, what its `details` field says.
Submitted == page.phase = "idle" /\ page.received # Undefined

ErrorResponseReceived == Submitted /\ ~Ok(page.received)

ReceivedField(name) == Get(Obj(page.received.body), name)

AlertShowsErrorAndDetails ==
    ErrorResponseReceived =>
        /\ Alert(page).shown
        /\ Contains(Alert(page).description, ToText(ReceivedField("error")))
        /\ ReceivedField("details") # Undefined =>
              Contains(Alert(page).description, ToText(ReceivedField("details")))

\* C20 (as the page does it): when a submitted request comes back as an error
\* response, the inline alert is shown with the title "Error" and exactly the
\* text of the response's `error` field; what the `details` field says is not
\* in the alert.
AlertShowsErrorOnly ==
    ErrorResponseReceived =>
        /\ Alert(page).shown
        /\ Alert(page).title = <<"Error">>
        /\ Alert(page).description = ToText(ReceivedField("error"))
        /\ ReceivedField("details") # Undefined =>
              ~Contains(Alert(page).description, ToText(ReceivedField("details")))
        /\ page.weatherData = Null
        /\ ~page.loading

AlertShowsErrorOnlyWitness ==
    /\ ErrorResponseReceived
    /\ page.received.status = 500
    /\ ReceivedField("error") = Str(<<"Failed to fetch weather data">>)
    /\ ReceivedField("details") = Str(<<"Connection error.">>)
    /\ Alert(page).description = <<"Failed to fetch weather data">>

\* ------------------------------------- several calls of POST in progress
\* How many other calls of POST are in progress beside the running one.
MaxPeers == 1

\* The locals of one call of POST and the outbound calls it has made.
Started(body) ==
    [request |-> body, pc |-> "start", query |-> Undefined, response |-> Undefined,
     args |-> Undefined, weatherData |-> Undefined, inflight |-> {}, log |-> <<>>,
     sent |-> <<>>]

RunningCall ==
    [request |-> request, pc |-> pc, query |-> query, response |-> response,
     args |-> args, weatherData |-> weatherData, inflight |-> inflight, log |-> log,
     sent |-> sent]

\* The requests and the replies drawn while several calls are in progress.
ConcurrentRequests ==
    {Malformed, Json(Null), Json(Obj(NoFields)), Json(Obj([query |-> Str(<<"a">>)]))}

ToolCallWith(a) ==
    Returned([output |-> Arr(<<[type |-> "function_call", name |-> "get_weather_data",
                                arguments |-> Json(a)]>>),
              output_text |-> Str(<<>>)])

ConcurrentFirstCallReplies ==
    {Threw(Err(<<"Connection error.">>)),
     Returned([output |-> Undefined,
               output_text |-> Str(<<"It is usually mild in spring.">>)]),
     ToolCallWith(ParisArgs), ToolCallWith(NewYorkArgs)}

ConcurrentWeatherReplies ==
    {[rejected |-> TRUE, error |-> Err(<<"fetch failed">>)],
     [rejected |-> FALSE, ok |-> FALSE,
      body |-> Json(Obj([error |-> Bool(TRUE), reason |-> ProviderReason]))]}
        \cup {[rejected |-> FALSE, ok |-> TRUE, body |-> Json(Obj([current |-> c]))] :
                 c \in Currents}

ConcurrentStructuringReplies ==
    {Threw(NonError), Returned([output_parsed |-> Null]),
     Returned([output_parsed |-> Obj([k \in StructuredFieldNames |-> StructuredFields[k]])])}

ConcurrentReplies(to) ==
    CASE to = "llm1" -> ConcurrentFirstCallReplies
      [] to = "weather" -> ConcurrentWeatherReplies
      [] to = "llm2" -> ConcurrentStructuringReplies

\* Every reply the running call has had so far is one of the replies above.
RepliesDrawn ==
    \A i \in 1..Len(log) : log[i].ev = "settled" => log[i].reply \in ConcurrentReplies(log[i].to)

ConcurrentInit ==
    /\ apiKey \in ApiKeys
    /\ request \in ConcurrentRequests
    /\ pc = "start"
    /\ query = Undefined
    /\ response = Undefined
    /\ args = Undefined
    /\ weatherData = Undefined
    /\ inflight = {}
    /\ log = <<>>
    /\ sent = <<>>
    /\ suspended \in [1..MaxPeers -> {Started(body) : body \in ConcurrentRequests}]
    /\ page = NoPage

\* Faulty variant: weatherData is one variable of the module, shared by all calls.
SwitchSharingWeatherData(i) ==
    /\ i \in 1..Len(suspended)
    /\ suspended' = [suspended EXCEPT ![i] = RunningCall]
    /\ request' = suspended[i].request
    /\ pc' = suspended[i].pc
    /\ query' = suspended[i].query
    /\ response' = suspended[i].response
    /\ args' = suspended[i].args
    /\ inflight' = suspended[i].inflight
    /\ log' = suspended[i].log
    /\ sent' = suspended[i].sent
    /\ UNCHANGED <<apiKey, page, weatherData>>

\* The running call is at an await or has returned, and the event loop goes
\* on with another call of POST; each call has its own locals.
Switch(i) ==
    /\ i \in 1..Len(suspended)
    /\ suspended' = [suspended EXCEPT ![i] = RunningCall]
    /\ request' = suspended[i].request
    /\ pc' = suspended[i].pc
    /\ query' = suspended[i].query
    /\ response' = suspended[i].response
    /\ args' = suspended[i].args
    /\ weatherData' = suspended[i].weatherData
    /\ inflight' = suspended[i].inflight
    /\ log' = suspended[i].log
    /\ sent' = suspended[i].sent
    /\ UNCHANGED <<apiKey, page>>

ConcurrentNext ==
    \/ POSTStart /\ RepliesDrawn'
    \/ CreateSettles /\ RepliesDrawn'
    \/ FetchSettles /\ RepliesDrawn'
    \/ ParseSettles /\ RepliesDrawn'
    \/ \E i \in 1..Len(suspended) : Switch(i)

ConcurrentSpec == ConcurrentInit /\ [][ConcurrentNext]_vars

\* --------------------------------------------------------------------- C16
\* C16: requests are handled independently: however two or more calls of POST
\* in progress are interleaved, the response of each is the one that its own
\* request body, the environment's key and the replies to its own outbound
\* calls determine, as if it had been handled alone; nothing another call
\* wrote enters it.
Calls == {RunningCall} \cup {suspended[i] : i \in 1..Len(suspended)}

ReplyTo(f, to) ==
    f.log[CHOOSE i \in 1..Len(f.log) : f.log[i].ev = "settled" /\ f.log[i].to = to].reply

\* The response of a call handled alone, from its request and its own replies.
AloneAfterToolCall(f, a) ==
    IF ~CanDestructure(a)
    THEN InnerCatch(FetchCatch(TypeErrorOf(<<"null (destructuring 'latitude')">>)))
    ELSE LET fetched == FetchSettled(a, ReplyTo(f, "weather")) IN
         IF fetched.threw THEN InnerCatch(fetched.error)
         ELSE IF ReplyTo(f, "llm2").threw THEN InnerCatch(ReplyTo(f, "llm2").error)
         ELSE ToolCallSuccess(ReplyTo(f, "llm2").value, fetched.value)

AloneAfterCreate(f) ==
    LET first == ReplyTo(f, "llm1") IN
    IF first.threw THEN OuterCatch(first.error)
    ELSE IF ~IsToolCall(first.value) THEN DirectAnswer(first.value)
    ELSE IF first.value.output.a[1].arguments.json = "malformed"
    THEN OuterCatch(JsonSyntaxError)
    ELSE AloneAfterToolCall(f, first.value.output.a[1].arguments.value)

HandledAlone(key, f) ==
    IF f.request.json = "malformed" THEN OuterCatch(JsonSyntaxError)
    ELSE IF ~CanDestructure(f.request.value)
    THEN OuterCatch(TypeErrorOf(<<"null (destructuring 'query')">>))
    ELSE IF ~Truthy(Get(f.request.value, "query")) THEN QueryRequired
    ELSE IF getOpenAIClient(key).threw THEN OuterCatch(getOpenAIClient(key).error)
    ELSE AloneAfterCreate(f)

RequestsIndependent ==
    suspended # <<>> =>
        \A f \in Calls : f.pc = "done" => f.sent = <<HandledAlone(apiKey, f)>>

RequestsIndependentWitness ==
    /\ suspended # <<>>
    /\ pc = "done"
    /\ suspended[1].pc = "done"
    /\ sent[1].status = 200
    /\ suspended[1].sent[1].status = 200
    /\ Get(Get(Obj(sent[1].body), "raw_weather"), "location") = Str(<<"Paris">>)
    /\ Get(Get(Obj(suspended[1].sent[1].body), "raw_weather"), "location")
           = Str(<<"New York">>)
    /\ sent = <<HandledAlone(apiKey, RunningCall)>>

\* --------------------------------------------------------------------- C21
\* C21: in the client page a submission never changes the query input: every
\* step of handleSubmit (its start or its early return on a blank query, the
\* arrival of a success or an error response, a network failure) leaves the
\* `query` state as it was, so the text the user typed, untrimmed, is still
\* there for a retry.
HandleSubmitStep == HandleSubmit \/ ResponseArrives \/ FetchRejects

QueryPreserved == [][HandleSubmitStep => page'.query = page.query]_vars

QueryPreservedWitness ==
    /\ page.phase = "idle"
    /\ page.received # Undefined
    /\ ~Ok(page.received)
    /\ page.error # Null
    /\ page.query = <<" ", "a">>

\* --------------------------------------------------------------------- C22
\* C22: the endpoint looks for the tool call only in the first item of the
\* language service's output: when the first call has returned and the first
\* output item is not a function call named get_weather_data, the request has
\* taken the direct-answer path (200 with `message` and no `data`, no weather
\* fetch, no second language-service call), even when a later item is a
\* get_weather_data function call.
IsWeatherToolCallItem(item) ==
    item.type = "function_call" /\ item.name = "get_weather_data"

FirstItemIsToolCall ==
    /\ response.output.t = "array"
    /\ Len(response.output.a) > 0
    /\ IsWeatherToolCallItem(response.output.a[1])

LaterItemIsToolCall ==
    /\ response.output.t = "array"
    /\ \E i \in 2..Len(response.output.a) : IsWeatherToolCallItem(response.output.a[i])

DirectAnswerArriving ==
    /\ sent[1].status = 200
    /\ Get(Obj(sent[1].body), "success") = Bool(TRUE)
    /\ IsString(Get(Obj(sent[1].body), "message"))
    /\ "data" \notin DOMAIN sent[1].body

SubmissionCompletes == ResponseArrives \/ FetchRejects

ExactlyOneSet(p) == (p.error # Null) # (p.weatherData # Null)

DirectAnswerEndsInError ==
    [][/\ SubmissionCompletes =>
              /\ ~page'.loading
              /\ page'.phase = "idle"
              /\ ExactlyOneSet(page')
       /\ (ResponseArrives /\ DirectAnswerArriving) =>
              /\ page'.error = Get(Obj(sent[1].body), "message")
              /\ page'.weatherData = Null
              /\ ~page'.loading]_vars

DirectAnswerEndsInErrorWitness ==
    /\ Submitted
    /\ page.received.status = 200
    /\ ReceivedField("success") = Bool(TRUE)
    /\ ReceivedField("data") = Undefined
    /\ ReceivedField("message") = Str(<<"It is usually mild in spring.">>)
    /\ page.error = Str(<<"It is usually mild in spring.">>)
    /\ page.weatherData = Null
    /\ ~page.loading

====
